---- MODULE Spec2Model ----
(***************************************************************************)
(* Provider resolution (core/cli_manager.py) and command dispatch          *)
(* (cli/main.py) of the Auto Claude backend.                               *)
(*                                                                         *)
(* Python strings are sequences of one-character strings, so that          *)
(* str.strip() and str.lower() are computed and not assumed.               *)
(***************************************************************************)
EXTENDS Integers, Sequences, FiniteSets, TLC

\* ------------------------------------------------------------------ bounds

\* longest run of whitespace put before / after an input word
MaxPad == 1

\* ----------------------------------------------------------------- strings

Uppers == <<"A","B","C","D","E","F","G","H","I","J","K","L","M",
            "N","O","P","Q","R","S","T","U","V","W","X","Y","Z">>
Lowers == <<"a","b","c","d","e","f","g","h","i","j","k","l","m",
            "n","o","p","q","r","s","t","u","v","w","x","y","z">>

\* characters str.strip() removes: the space, tab, line feed, carriage
\* return and form feed of str.isspace
Whitespace == {" ", "\t", "\n", "\r", "\f"}

LowerChar(c) ==
    IF \E i \in DOMAIN Uppers : Uppers[i] = c
    THEN Lowers[CHOOSE i \in DOMAIN Uppers : Uppers[i] = c]
    ELSE c

UpperChar(c) ==
    IF \E i \in DOMAIN Lowers : Lowers[i] = c
    THEN Uppers[CHOOSE i \in DOMAIN Lowers : Lowers[i] = c]
    ELSE c

\* str.lower()
lower(s) == [i \in DOMAIN s |-> LowerChar(s[i])]

\* str.upper(), used to build inputs only
upper(s) == [i \in DOMAIN s |-> UpperChar(s[i])]

\* str.title() of a single word, used to build inputs only
title(s) == [i \in DOMAIN s |-> IF i = 1 THEN UpperChar(s[i]) ELSE s[i]]

RECURSIVE lstrip(_)
lstrip(s) ==
    IF s # <<>> /\ Head(s) \in Whitespace THEN lstrip(Tail(s)) ELSE s

RECURSIVE rstrip(_)
rstrip(s) ==
    IF s # <<>> /\ s[Len(s)] \in Whitespace
    THEN rstrip(SubSeq(s, 1, Len(s) - 1))
    ELSE s

\* str.strip()
strip(s) == rstrip(lstrip(s))

\* ------------------------------------------------------------ enumerations

\* class CLIType(str, Enum)
CLIType_CLAUDE   == <<"c","l","a","u","d","e">>
CLIType_OPENCODE == <<"o","p","e","n","c","o","d","e">>
CLIType == {CLIType_CLAUDE, CLIType_OPENCODE}

\* class CLIProvider(str, Enum), in declaration order
CLIProvider_CLAUDE == <<"c","l","a","u","d","e">>
CLIProvider_OPENAI == <<"o","p","e","n","a","i">>
CLIProvider_GOOGLE == <<"g","o","o","g","l","e">>
CLIProvider_ZEN    == <<"z","e","n">>
CLIProvider_LOCAL  == <<"l","o","c","a","l">>
CLIProviderMembers ==
    <<CLIProvider_CLAUDE, CLIProvider_OPENAI, CLIProvider_GOOGLE,
      CLIProvider_ZEN, CLIProvider_LOCAL>>
CLIProvider == {CLIProviderMembers[i] : i \in DOMAIN CLIProviderMembers}

\* ------------------------------------------------------- process environment

\* Environment variables (cli_manager.py:38-43)
CLI_PROVIDER_ENV      == "CLI_PROVIDER"
CLAUDE_CLI_PATH_ENV   == "CLAUDE_CLI_PATH"
OPENCODE_CLI_PATH_ENV == "OPENCODE_CLI_PATH"
OPENCODE_PROVIDER_ENV == "OPENCODE_PROVIDER"
EnvNames ==
    {CLI_PROVIDER_ENV, CLAUDE_CLI_PATH_ENV, OPENCODE_CLI_PATH_ENV,
     OPENCODE_PROVIDER_ENV}

\* a variable of os.environ: unset, or set to a string
EnvUnset  == [set |-> FALSE, v |-> <<>>]
EnvVal(s) == [set |-> TRUE, v |-> s]

\* os.environ.get(name, default)
EnvGet(env, name, default) ==
    IF env[name].set THEN env[name].v ELSE default

\* truthiness of os.environ.get(name): None and "" are both falsy
EnvTruthy(env, name) == env[name].set /\ env[name].v # <<>>

\* -------------------------------------------------------------- settings file

\* A JSON value read from .auto-claude/settings.json.  t is the JSON type,
\* s is what Python's str() gives for it ("missing" is dict.get's None).
JMissing   == [t |-> "missing", s |-> <<"N","o","n","e">>]
JNull      == [t |-> "null",    s |-> <<"N","o","n","e">>]
JTrue      == [t |-> "bool",    s |-> <<"T","r","u","e">>]
JFalse     == [t |-> "bool",    s |-> <<"F","a","l","s","e">>]
JZero      == [t |-> "num",     s |-> <<"0">>]
JOne       == [t |-> "num",     s |-> <<"1">>]
JEmptyList == [t |-> "list",    s |-> <<"[","]">>]
JStr(x)    == [t |-> "str",     s |-> x]
\* the one-element list ["<x>"], rendered by str() as ['<x>']
JList(x)   == [t |-> "list",    s |-> <<"[","'">> \o x \o <<"'","]">>]

\* bool(v) in Python
Truthy(v) ==
    CASE v.t = "missing" -> FALSE
      [] v.t = "null"    -> FALSE
      [] v.t = "bool"    -> v = JTrue
      [] v.t = "num"     -> v # JZero
      [] v.t = "str"     -> v.s # <<>>
      [] v.t = "list"    -> v # JEmptyList
      [] OTHER           -> TRUE

\* str(v) in Python
PyStr(v) == v.s

\* the value of the "opencode" key: an object with a "provider" key, or not
OcObject(p)  == [t |-> "obj", provider |-> p]
OcMissing    == [t |-> "missing", provider |-> JMissing]
OcNonObject(k) == [t |-> k, provider |-> JMissing]

\* the parsed document: a JSON object with optional keys, or another value
DocObject(c, oc)  == [t |-> "obj", cli |-> c, opencode |-> oc]
DocNonObject(k)   == [t |-> k, cli |-> JMissing, opencode |-> OcMissing]

\* The settings file as open()/json.load() see it:
\*   absent   settings_path.exists() is false
\*   ioerror  open() or read() raises OSError (unreadable, a directory)
\*   badjson  json.load raises json.JSONDecodeError
\*   badutf8  the bytes are not UTF-8: read() raises UnicodeDecodeError
\*   ok       json.load returns doc
SettingsAbsent  == [file |-> "absent",  doc |-> DocNonObject("null")]
SettingsIOError == [file |-> "ioerror", doc |-> DocNonObject("null")]
SettingsBadJson == [file |-> "badjson", doc |-> DocNonObject("null")]
SettingsBadUtf8 == [file |-> "badutf8", doc |-> DocNonObject("null")]
SettingsDoc(d)  == [file |-> "ok", doc |-> d]

\* -------------------------------------------------------- function outcomes

\* how a call ends: a returned value, an exception that propagates, or (inside
\* a function) falling through to the next step.  warn: logger.warning called.
Return(x, w)   == [kind |-> "return",   value |-> x,    exc |-> "", warn |-> w]
Raise(e)       == [kind |-> "raise",    value |-> <<>>, exc |-> e,  warn |-> FALSE]
Continue(w)    == [kind |-> "continue", value |-> <<>>, exc |-> "", warn |-> w]
NoResult       == [kind |-> "none",     value |-> <<>>, exc |-> "", warn |-> FALSE]

\* ------------------------------------------------- CLIManager._detect_cli

\* lines 80-94 with the warning's "Falling back to default" taken literally:
\* an unrecognized override returns the default at once
DetectCliEnvStep_FallsToDefault(env) ==
    LET env_cli == lower(strip(EnvGet(env, CLI_PROVIDER_ENV, <<>>))) IN
    IF env_cli # <<>>
    THEN IF env_cli = CLIType_OPENCODE THEN Return(CLIType_OPENCODE, FALSE)
         ELSE IF env_cli = CLIType_CLAUDE THEN Return(CLIType_CLAUDE, FALSE)
         ELSE Return(CLIType_CLAUDE, TRUE)
    ELSE Continue(FALSE)

\* lines 80-94: the CLI_PROVIDER environment variable
DetectCliEnvStep(env) ==
    LET env_cli == lower(strip(EnvGet(env, CLI_PROVIDER_ENV, <<>>))) IN
    IF env_cli # <<>>
    THEN IF env_cli = CLIType_OPENCODE THEN Return(CLIType_OPENCODE, FALSE)
         ELSE IF env_cli = CLIType_CLAUDE THEN Return(CLIType_CLAUDE, FALSE)
         ELSE Continue(TRUE)
    ELSE Continue(FALSE)

\* line 116: except (json.JSONDecodeError, IOError, OSError)
DetectCliCaught == {"ioerror", "badjson"}

\* the exception open()/json.load() raise for a file state, "" when none
LoadException(file) ==
    CASE file = "ioerror" -> "OSError"
      [] file = "badjson" -> "JSONDecodeError"
      [] file = "badutf8" -> "UnicodeDecodeError"
      [] OTHER            -> ""

\* lines 96-117 without the .lower() of line 104
DetectCliSettingsStep_CaseSensitive(st) ==
    IF st.file = "absent" THEN Continue(FALSE)
    ELSE IF st.file # "ok"
    THEN IF st.file \in {"ioerror", "badjson"}
         THEN Continue(FALSE)
         ELSE Raise(LoadException(st.file))
    ELSE IF st.doc.t # "obj" THEN Raise("AttributeError")
    ELSE LET cli == st.doc.cli IN
         IF Truthy(cli)
         THEN LET c == strip(PyStr(cli)) IN
              IF c = CLIType_OPENCODE THEN Return(CLIType_OPENCODE, FALSE)
              ELSE IF c = CLIType_CLAUDE THEN Return(CLIType_CLAUDE, FALSE)
              ELSE Continue(TRUE)
         ELSE Continue(FALSE)

\* lines 96-117: the settings file's cli field
DetectCliSettingsStep(st) ==
    IF st.file = "absent" THEN Continue(FALSE)
    ELSE IF st.file # "ok"
    THEN IF st.file \in DetectCliCaught
         THEN Continue(FALSE)
         ELSE Raise(LoadException(st.file))
    ELSE IF st.doc.t # "obj" THEN Raise("AttributeError")
    ELSE LET cli == st.doc.cli IN
         IF Truthy(cli)
         THEN LET c == lower(strip(PyStr(cli))) IN
              IF c = CLIType_OPENCODE THEN Return(CLIType_OPENCODE, FALSE)
              ELSE IF c = CLIType_CLAUDE THEN Return(CLIType_CLAUDE, FALSE)
              ELSE Continue(TRUE)
         ELSE Continue(FALSE)

\* lines 119-121: the default
DetectCliDefault == Return(CLIType_CLAUDE, FALSE)

\* _detect_cli as a whole (lines 68-121)
DetectCli(env, st) ==
    LET e == DetectCliEnvStep(env) IN
    IF e.kind # "continue" THEN e
    ELSE LET f == DetectCliSettingsStep(st) IN
         IF f.kind = "raise" THEN f
         ELSE IF f.kind = "return" THEN [f EXCEPT !.warn = e.warn]
         ELSE [DetectCliDefault EXCEPT !.warn = e.warn \/ f.warn]

\* ------------------------------------------ CLIManager.get_opencode_provider

\* line 320: except (json.JSONDecodeError, IOError)
SubProviderCaught == {"ioerror", "badjson"}

\* lines 309-321: the settings file's opencode.provider field, read only when
\* the environment gave an empty string; yields the new provider_str
SubProviderSettingsStep(st) ==
    IF st.file = "absent" THEN Return(<<>>, FALSE)
    ELSE IF st.file # "ok"
    THEN IF st.file \in SubProviderCaught
         THEN Return(<<>>, FALSE)
         ELSE Raise(LoadException(st.file))
    ELSE IF st.doc.t # "obj" THEN Raise("AttributeError")
    \* settings.get("opencode", {}): only a missing key gives the {} default
    ELSE IF st.doc.opencode.t = "missing" THEN Return(<<>>, FALSE)
    ELSE IF st.doc.opencode.t # "obj" THEN Raise("AttributeError")
    ELSE LET provider == st.doc.opencode.provider IN
         IF Truthy(provider)
         THEN Return(lower(strip(PyStr(provider))), FALSE)
         ELSE Return(<<>>, FALSE)

\* lines 323-334: default, then CLIProvider(provider_str) with its ValueError
SubProviderValidate(provider_str) ==
    LET p == IF provider_str = <<>> THEN CLIProvider_CLAUDE ELSE provider_str IN
    IF p \in CLIProvider THEN Return(p, FALSE)
    ELSE Return(CLIProvider_CLAUDE, TRUE)

\* get_opencode_provider as a whole (lines 291-334)
GetOpencodeProvider(env, st) ==
    LET provider_str == lower(strip(EnvGet(env, OPENCODE_PROVIDER_ENV, <<>>))) IN
    IF provider_str # <<>> THEN SubProviderValidate(provider_str)
    ELSE LET f == SubProviderSettingsStep(st) IN
         IF f.kind = "raise" THEN f ELSE SubProviderValidate(f.value)

\* ------------------------------------------------------ executable lookup

\* A path is a sequence of components; <<>> is the empty string, and also
\* stands for Python's None where a path is optional.
NonePath == <<>>

\* what a path is on disk: nothing, a file without the execute bit, or an
\* executable file
FileKinds == {"absent", "file", "exec"}

\* Path(p).exists()
Exists(fs, p) == p \in DOMAIN fs /\ fs[p] # "absent"

\* shutil.which(name): the first directory of PATH holding an executable name
which(name, dirs, fs) ==
    LET hits == {i \in DOMAIN dirs :
                    /\ (dirs[i] \o <<name>>) \in DOMAIN fs
                    /\ fs[dirs[i] \o <<name>>] = "exec"} IN
    IF hits = {} THEN NonePath
    ELSE dirs[CHOOSE i \in hits : \A j \in hits : i <= j] \o <<name>>

\* lines 159-177 and 191-209 without the path.exists() test
FindCli_NoExistsCheck(envName, name, env, dirs, fs) ==
    IF EnvTruthy(env, envName)
    THEN Return(env[envName].v, FALSE)
    ELSE LET path == which(name, dirs, fs) IN
         IF path # NonePath
         THEN Return(path, FALSE)
         ELSE Return(NonePath, TRUE)

\* lines 159-177 and 191-209, which differ in the variable and the name only
FindCli(envName, name, env, dirs, fs) ==
    IF EnvTruthy(env, envName) /\ Exists(fs, env[envName].v)
    THEN Return(env[envName].v, FALSE)
    ELSE LET path == which(name, dirs, fs) IN
         IF path # NonePath
         THEN Return(path, EnvTruthy(env, envName))
         ELSE Return(NonePath, TRUE)

\* _find_claude_cli (lines 147-177)
FindClaudeCli(env, dirs, fs) ==
    FindCli(CLAUDE_CLI_PATH_ENV, "claude", env, dirs, fs)

\* _find_opencode_cli (lines 179-209)
FindOpencodeCli(env, dirs, fs) ==
    FindCli(OPENCODE_CLI_PATH_ENV, "opencode", env, dirs, fs)

\* get_cli_path (lines 135-145)
GetCliPath(ct, env, dirs, fs) ==
    IF ct = CLIType_CLAUDE
    THEN FindClaudeCli(env, dirs, fs)
    ELSE FindOpencodeCli(env, dirs, fs)

\* ------------------------------------------------- CLIManager.validate_cli

\* how `<cli> --version` under subprocess.run(timeout=10) can end
ProbeOutcomes ==
    {"exit0", "nonzero", "timeout", "FileNotFoundError", "PermissionError",
     "OSError"}

\* the outcomes the file on disk allows: a file without the execute bit
\* cannot be started
ProbesOf(fs, path) ==
    IF path \in DOMAIN fs /\ fs[path] = "file"
    THEN {"PermissionError"}
    ELSE ProbeOutcomes

\* what subprocess.run raises for a probe outcome, "" when it returns
ProbeException(probe) ==
    CASE probe = "timeout" -> "TimeoutExpired"
      [] probe \in {"FileNotFoundError", "PermissionError", "OSError"} -> probe
      [] OTHER -> ""

\* the classes an exception is an instance of (Python's built-in hierarchy)
ExceptionBases(e) ==
    CASE e = "TimeoutExpired"    -> {"TimeoutExpired", "SubprocessError", "Exception"}
      [] e = "FileNotFoundError" -> {"FileNotFoundError", "OSError", "Exception"}
      [] e = "PermissionError"   -> {"PermissionError", "OSError", "Exception"}
      [] e = "OSError"           -> {"OSError", "Exception"}
      [] OTHER                   -> {}

\* the except clauses with the last one left out
ValidateClauses_NoCatchAll ==
    << [class |-> "TimeoutExpired",    msg |-> "timed out when checking version"],
       [class |-> "FileNotFoundError", msg |-> "executable not found"],
       [class |-> "PermissionError",   msg |-> "no execute permission"] >>

\* the except clauses of validate_cli in order (lines 253-261)
ValidateClauses ==
    << [class |-> "TimeoutExpired",    msg |-> "timed out when checking version"],
       [class |-> "FileNotFoundError", msg |-> "executable not found"],
       [class |-> "PermissionError",   msg |-> "no execute permission"],
       [class |-> "Exception",         msg |-> "Failed to validate"] >>

\* the tuple validate_cli returns, and an exception leaving it
Validation(cli_name, ok, msg) ==
    [ok |-> ok, msg |-> msg, name |-> cli_name, raised |-> ""]
ValidationRaised(cli_name, e) ==
    [ok |-> FALSE, msg |-> "", name |-> cli_name, raised |-> e]

\* the first except clause that matches e handles it; with none e propagates
ValidateExcept(cli_name, e) ==
    LET hits == {i \in DOMAIN ValidateClauses :
                    ValidateClauses[i].class \in ExceptionBases(e)} IN
    IF hits = {} THEN ValidationRaised(cli_name, e)
    ELSE LET first == CHOOSE i \in hits : \A j \in hits : i <= j IN
         Validation(cli_name, FALSE, ValidateClauses[first].msg)

\* validate_cli after get_cli_path (lines 224-261); a Path object is always
\* truthy, so `not cli_path` is `cli_path is None`
ValidatePath(cli_name, cli_path, fs, probe) ==
    IF cli_path = NonePath THEN Validation(cli_name, FALSE, "not found")
    ELSE IF ~Exists(fs, cli_path)
    THEN Validation(cli_name, FALSE, "exists but is not executable")
    ELSE IF ProbeException(probe) # ""
    THEN ValidateExcept(cli_name, ProbeException(probe))
    ELSE IF probe = "exit0"
    THEN Validation(cli_name, TRUE, "is working")
    ELSE Validation(cli_name, FALSE, "--version command failed")

\* validate_cli (lines 211-261)
ValidateCli(ct, env, dirs, fs, probe) ==
    ValidatePath(title(ct), GetCliPath(ct, env, dirs, fs).value, fs, probe)

\* ------------------------------------------------ CLIManager.get_auth_info

\* get_auth_info (lines 263-289)
GetAuthInfo(ct) ==
    IF ct = CLIType_CLAUDE
    THEN [cli |-> CLIType_CLAUDE, type |-> "oauth",
          supports_keychain |-> TRUE, requires_oauth |-> TRUE]
    ELSE [cli |-> CLIType_OPENCODE, type |-> "multi_provider",
          supports_keychain |-> TRUE, requires_oauth |-> FALSE]

\* --------------------------------------------------------- spec registry

\* a spec directory name is its number followed by its slug
SpecDir001 == <<"001", "initial-app">>

\* p is a prefix of s
IsPrefix(p, s) == Len(p) <= Len(s) /\ SubSeq(s, 1, Len(p)) = p

\* find_spec(project_dir, identifier): the spec directory whose name the
\* identifier equals or is a prefix of, NonePath when there is none
find_spec(reg, identifier) ==
    IF \E d \in reg : IsPrefix(identifier, d)
    THEN CHOOSE d \in reg : IsPrefix(identifier, d)
    ELSE NonePath

\* ===================================================================== state

VARIABLES
    pc,          \* position in main / _run_cli / the function under study
    args,        \* the argparse Namespace
    environ,     \* os.environ
    settings,    \* <project_dir>/.auto-claude/settings.json
    searchPath,  \* the directories of PATH, in order
    fsys,        \* the files the lookups can see: path -> FileKinds
    registry,    \* the spec directories of the project
    cli_type,    \* CLIManager.cli_type
    spec_dir,    \* _run_cli's spec_dir
    result,      \* outcome of the last resolver call
    report,      \* what print_cli_and_auth_info has shown so far
    outcome,     \* what the dispatched handler or the version probe reported
    calls,       \* the collaborators called so far, in order
    exc,         \* the exception propagating out of _run_cli
    exit_code    \* the process exit status, -1 while running

vars == <<pc, args, environ, settings, searchPath, fsys, registry, cli_type,
          spec_dir, result, report, outcome, calls, exc, exit_code>>

\* ------------------------------------------------------------ input domains

RECURSIVE Pads(_)
\* the runs of whitespace of length at most n
Pads(n) ==
    IF n = 0 THEN {<<>>}
    ELSE Pads(n - 1) \cup
         {<<c>> \o p : c \in {" ", "\t"}, p \in {q \in Pads(n - 1) : Len(q) = n - 1}}

\* a word in its spellings: as is, upper case, capitalised, each padded
Spellings(w) ==
    {l \o c \o r : l \in Pads(MaxPad), r \in Pads(MaxPad),
                   c \in {w, upper(w), title(w)}}

Bogus     == <<"b","o","g","u","s">>
OpenSpace == <<"o","p","e","n"," ","c","o","d","e">>
Claud     == <<"c","l","a","u","d">>

\* values of CLI_PROVIDER and of the settings' cli field
ProviderWords == {<<>>, CLIType_CLAUDE, CLIType_OPENCODE, Bogus, OpenSpace, Claud}
ProviderStrings == UNION {Spellings(w) : w \in ProviderWords}

\* values of OPENCODE_PROVIDER and of the settings' opencode.provider field
SubProviderWords == {<<>>, CLIProvider_OPENAI, CLIProvider_ZEN, Bogus}
SubProviderStrings == UNION {Spellings(w) : w \in SubProviderWords}

NoEnviron == [n \in EnvNames |-> EnvUnset]

NoArgs ==
    [list |-> FALSE, spec |-> <<>>, cli |-> <<>>, info |-> FALSE,
     merge_preview |-> FALSE, merge |-> FALSE, review |-> FALSE,
     discard |-> FALSE, create_pr |-> FALSE, qa_status |-> FALSE,
     review_status |-> FALSE, qa |-> FALSE, followup |-> FALSE]

NoExc    == [type |-> "", code |-> 0]
NoReport ==
    [cli_type |-> <<>>, cli_path |-> NonePath,
     valid |-> [ok |-> FALSE, msg |-> "", name |-> <<>>, raised |-> ""],
     auth |-> "", sub |-> <<>>,
     token |-> FALSE]

\* ======================================================== cli/main.py: main

\* with --info given, at most this many terminal flags are set as well
MaxInfoFlags == 1

TerminalFlags ==
    {"merge_preview", "merge", "review", "discard", "create_pr", "qa_status",
     "review_status", "qa", "followup"}

\* --spec: not given, a known number, an unknown number
SpecArgs == {<<>>, <<"001">>, <<"999">>}

\* --cli: not given, or one of choices=["claude", "opencode"] (lines 122-128)
CliArgs == {<<>>, CLIType_CLAUDE, CLIType_OPENCODE}

\* every Namespace parse_args can return, and those a caller can build by
\* hand past the mutually exclusive group (lines 157-177)
Namespaces ==
    [list : BOOLEAN, spec : SpecArgs, cli : CliArgs, info : BOOLEAN,
     merge_preview : BOOLEAN, merge : BOOLEAN, review : BOOLEAN,
     discard : BOOLEAN, create_pr : BOOLEAN, qa_status : BOOLEAN,
     review_status : BOOLEAN, qa : BOOLEAN, followup : BOOLEAN]

FlagsSet(a) == {f \in TerminalFlags : a[f]}

\* the files of the dispatch runs: claude installed in the first directory,
\* opencode present without the execute bit
UsrBin == <<"usr", "bin">>
DispatchFsys ==
    (UsrBin \o <<"claude">>) :> "exec" @@ (UsrBin \o <<"opencode">>) :> "file"

DispatchProviderEnv ==
    {EnvUnset, EnvVal(Bogus), EnvVal(title(CLIType_OPENCODE) \o <<" ">>)}

DispatchSettings ==
    {SettingsAbsent,
     SettingsDoc(DocNonObject("list")),
     SettingsDoc(DocObject(JStr(upper(CLIType_OPENCODE)), OcMissing)),
     SettingsDoc(DocObject(JStr(CLIType_OPENCODE),
                           OcObject(JStr(CLIProvider_ZEN)))),
     SettingsDoc(DocObject(JMissing, OcNonObject("str")))}

\* the state when main() is entered (line 376), arguments parsed
Init ==
    /\ pc = "start"
    /\ args \in Namespaces
    /\ \E p \in DispatchProviderEnv :
          environ = [NoEnviron EXCEPT ![CLI_PROVIDER_ENV] = p]
    /\ IF args.info
       THEN /\ Cardinality(FlagsSet(args)) <= MaxInfoFlags
            /\ settings \in DispatchSettings
            /\ registry = {SpecDir001}
       ELSE /\ settings = SettingsAbsent
            /\ registry \in {{}, {SpecDir001}}
    /\ searchPath = <<UsrBin>>
    /\ fsys = DispatchFsys
    /\ cli_type = <<>>
    /\ spec_dir = NonePath
    /\ result = NoResult
    /\ report = NoReport
    /\ outcome = ""
    /\ calls = <<>>
    /\ exc = NoExc
    /\ exit_code = -1

\* a statement raises: control leaves _run_cli for main's except clauses
Raises(type, code) ==
    /\ pc' = "raised"
    /\ exc' = [type |-> type, code |-> code]

\* lines 420-424 left out: --cli is parsed and not exported
SelectCli_NotExported ==
    /\ pc = "start"
    /\ pc' = "cli_selected"
    /\ UNCHANGED <<args, environ, settings, searchPath, fsys, registry, cli_type,
                   spec_dir, result, report, outcome, calls, exc, exit_code>>

\* lines 420-424: --cli is written to the process environment
SelectCli ==
    /\ pc = "start"
    /\ pc' = "cli_selected"
    /\ environ' = IF args.cli # <<>>
                  THEN [environ EXCEPT ![CLI_PROVIDER_ENV] = EnvVal(args.cli)]
                  ELSE environ
    /\ UNCHANGED <<args, settings, searchPath, fsys, registry, cli_type,
                   spec_dir, result, report, outcome, calls, exc, exit_code>>

\* lines 426-429: --info runs print_cli_and_auth_info and returns
InfoBranch ==
    /\ pc = "cli_selected"
    /\ IF args.info
       THEN /\ pc' = "info_manager"
            /\ calls' = Append(calls, "print_cli_and_auth_info")
       ELSE /\ pc' = "require_spec"
            /\ calls' = calls
    /\ UNCHANGED <<args, environ, settings, searchPath, fsys, registry,
                   cli_type, spec_dir, result, report, outcome, exc, exit_code>>

\* lines 431-441 without the test: a missing --spec goes on to the lookup
RequireSpec_Skipped ==
    /\ pc = "require_spec"
    /\ calls' = calls
    /\ pc' = "find_spec"
    /\ exc' = exc
    /\ UNCHANGED <<args, environ, settings, searchPath, fsys, registry,
                   cli_type, spec_dir, result, report, outcome, exit_code>>

\* lines 431-441: without --spec, print the usage and sys.exit(1).  The guard
\* is written twice in the source (lines 432 and 433); it is one test here.
RequireSpec ==
    /\ pc = "require_spec"
    /\ IF args.spec = <<>>
       THEN /\ calls' = calls \o <<"print_banner", "print_usage">>
            /\ Raises("SystemExit", 1)
       ELSE /\ calls' = calls
            /\ pc' = "find_spec"
            /\ exc' = exc
    /\ UNCHANGED <<args, environ, settings, searchPath, fsys, registry,
                   cli_type, spec_dir, result, report, outcome, exit_code>>

\* lines 443-463 without the sys.exit(1) of line 452
FindSpec_NoExit ==
    /\ pc = "find_spec"
    /\ spec_dir' = find_spec(registry, args.spec)
    /\ calls' = IF spec_dir' = NonePath
                THEN calls \o <<"find_spec", "print_banner", "print_specs_list">>
                ELSE calls \o <<"find_spec", "set_context">>
    /\ pc' = "dispatch"
    /\ exc' = exc
    /\ UNCHANGED <<args, environ, settings, searchPath, fsys, registry,
                   cli_type, result, report, outcome, exit_code>>

\* lines 443-463: look the spec up; unknown: list the specs and sys.exit(1)
FindSpec ==
    /\ pc = "find_spec"
    /\ spec_dir' = find_spec(registry, args.spec)
    /\ IF spec_dir' = NonePath
       THEN /\ calls' = calls \o <<"find_spec", "print_banner", "print_specs_list">>
            /\ Raises("SystemExit", 1)
       ELSE /\ calls' = calls \o <<"find_spec", "set_context">>
            /\ pc' = "dispatch"
            /\ exc' = exc
    /\ UNCHANGED <<args, environ, settings, searchPath, fsys, registry,
                   cli_type, result, report, outcome, exit_code>>

\* what a handler can do: report success, report failure (the handlers whose
\* result _run_cli reads), raise an error, or be interrupted by Ctrl+C
StatusOutcomes == {"ok", "fail", "error", "interrupt"}
PlainOutcomes  == {"ok", "error", "interrupt"}

\* a handler call of lines 465-553 and what follows it in _run_cli:
\* exitOnFail is whether the code tests the result and calls sys.exit(1)
Handled(name, o, exitOnFail) ==
    /\ pc = "dispatch"
    /\ calls' = Append(calls, name)
    /\ outcome' = o
    /\ CASE o = "error"              -> Raises("Exception", 0)
         [] o = "interrupt"          -> Raises("KeyboardInterrupt", 0)
         [] o = "fail" /\ exitOnFail -> Raises("SystemExit", 1)
         [] OTHER                    -> pc' = "returned" /\ exc' = exc
    /\ UNCHANGED <<args, environ, settings, searchPath, fsys, registry,
                   cli_type, spec_dir, result, report, exit_code>>

\* lines 466-476: the result is printed as JSON and not examined
HandleMergePreview ==
    /\ args.merge_preview
    /\ \E o \in StatusOutcomes :
          Handled("handle_merge_preview_command", o, FALSE)

\* lines 478-487
HandleMerge ==
    /\ ~args.merge_preview
    /\ args.merge
    /\ \E o \in StatusOutcomes : Handled("handle_merge_command", o, TRUE)

\* lines 489-491 tested ahead of the merge branch
HandleReview_BeforeMerge ==
    /\ ~args.merge_preview
    /\ args.review
    /\ \E o \in PlainOutcomes : Handled("handle_review_command", o, FALSE)

\* lines 489-491
HandleReview ==
    /\ ~args.merge_preview /\ ~args.merge
    /\ args.review
    /\ \E o \in PlainOutcomes : Handled("handle_review_command", o, FALSE)

\* lines 493-495
HandleDiscard ==
    /\ ~args.merge_preview /\ ~args.merge /\ ~args.review
    /\ args.discard
    /\ \E o \in PlainOutcomes : Handled("handle_discard_command", o, FALSE)

\* lines 497-510
HandleCreatePr ==
    /\ ~args.merge_preview /\ ~args.merge /\ ~args.review /\ ~args.discard
    /\ args.create_pr
    /\ \E o \in StatusOutcomes : Handled("handle_create_pr_command", o, TRUE)

\* lines 513-515
HandleQaStatus ==
    /\ ~args.merge_preview /\ ~args.merge /\ ~args.review /\ ~args.discard
    /\ ~args.create_pr
    /\ args.qa_status
    /\ \E o \in PlainOutcomes : Handled("handle_qa_status_command", o, FALSE)

\* lines 517-519
HandleReviewStatus ==
    /\ ~args.merge_preview /\ ~args.merge /\ ~args.review /\ ~args.discard
    /\ ~args.create_pr /\ ~args.qa_status
    /\ args.review_status
    /\ \E o \in PlainOutcomes :
          Handled("handle_review_status_command", o, FALSE)

\* lines 521-528
HandleQa ==
    /\ ~args.merge_preview /\ ~args.merge /\ ~args.review /\ ~args.discard
    /\ ~args.create_pr /\ ~args.qa_status /\ ~args.review_status
    /\ args.qa
    /\ \E o \in PlainOutcomes : Handled("handle_qa_command", o, FALSE)

\* lines 530-538
HandleFollowup ==
    /\ ~args.merge_preview /\ ~args.merge /\ ~args.review /\ ~args.discard
    /\ ~args.create_pr /\ ~args.qa_status /\ ~args.review_status /\ ~args.qa
    /\ args.followup
    /\ \E o \in PlainOutcomes : Handled("handle_followup_command", o, FALSE)

\* lines 540-553: the normal build flow
HandleBuild ==
    /\ ~args.merge_preview /\ ~args.merge /\ ~args.review /\ ~args.discard
    /\ ~args.create_pr /\ ~args.qa_status /\ ~args.review_status /\ ~args.qa
    /\ ~args.followup
    /\ \E o \in PlainOutcomes : Handled("handle_build_command", o, FALSE)

\* ------------------------------------------------ print_cli_and_auth_info

\* lines 314-316: get_cli_manager runs CLIManager.__init__, which resolves the
\* provider once and keeps it (cli_manager.py lines 57-66)
InfoManager ==
    /\ pc = "info_manager"
    /\ LET r == DetectCli(environ, settings) IN
       /\ result' = r
       /\ calls' = Append(calls, "get_cli_manager")
       /\ IF r.kind = "raise"
          THEN /\ Raises("Exception", 0)
               /\ UNCHANGED <<cli_type, report>>
          ELSE /\ cli_type' = r.value
               /\ report' = [report EXCEPT !.cli_type = r.value]
               /\ pc' = "info_path"
               /\ exc' = exc
    /\ UNCHANGED <<args, environ, settings, searchPath, fsys, registry,
                   spec_dir, outcome, exit_code>>

\* get_cli_path of a manager that resolved the provider again
InfoPath_Reresolves ==
    /\ pc = "info_path"
    /\ LET r == GetCliPath(DetectCli(environ, settings).value,
                           environ, searchPath, fsys) IN
       /\ result' = r
       /\ report' = [report EXCEPT !.cli_path = r.value]
    /\ pc' = "info_validate"
    /\ UNCHANGED <<args, environ, settings, searchPath, fsys, registry,
                   cli_type, spec_dir, outcome, calls, exc, exit_code>>

\* lines 325-326
InfoPath ==
    /\ pc = "info_path"
    /\ LET r == GetCliPath(cli_type, environ, searchPath, fsys) IN
       /\ result' = r
       /\ report' = [report EXCEPT !.cli_path = r.value]
    /\ pc' = "info_validate"
    /\ UNCHANGED <<args, environ, settings, searchPath, fsys, registry,
                   cli_type, spec_dir, outcome, calls, exc, exit_code>>

\* lines 328-333
InfoValidate ==
    /\ pc = "info_validate"
    /\ \E probe \in ProbesOf(fsys, GetCliPath(cli_type, environ, searchPath, fsys).value) :
          LET v == ValidateCli(cli_type, environ, searchPath, fsys, probe) IN
          /\ report' = [report EXCEPT !.valid = v]
          /\ IF v.raised # ""
             THEN Raises("Exception", 0)
             ELSE pc' = "info_auth" /\ exc' = exc
    /\ UNCHANGED <<args, environ, settings, searchPath, fsys, registry,
                   cli_type, spec_dir, result, outcome, calls, exit_code>>

\* lines 335-348 with the sub-provider read for every descriptor
InfoAuth_Always ==
    /\ pc = "info_auth"
    /\ LET auth_info == GetAuthInfo(cli_type)
           r == GetOpencodeProvider(environ, settings) IN
       /\ result' = r
       /\ calls' = Append(calls, "get_opencode_provider")
       /\ IF r.kind = "raise"
          THEN /\ Raises("Exception", 0)
               /\ report' = [report EXCEPT !.auth = auth_info.type]
          ELSE /\ report' = [report EXCEPT !.auth = auth_info.type,
                                           !.sub = r.value]
               /\ pc' = "info_token"
               /\ exc' = exc
    /\ UNCHANGED <<args, environ, settings, searchPath, fsys, registry,
                   cli_type, spec_dir, outcome, exit_code>>

\* lines 335-348: the sub-provider is read for the multi_provider descriptor
InfoAuth ==
    /\ pc = "info_auth"
    /\ LET auth_info == GetAuthInfo(cli_type) IN
       IF auth_info.type = "multi_provider"
       THEN LET r == GetOpencodeProvider(environ, settings) IN
            /\ result' = r
            /\ calls' = Append(calls, "get_opencode_provider")
            /\ IF r.kind = "raise"
               THEN /\ Raises("Exception", 0)
                    /\ report' = [report EXCEPT !.auth = auth_info.type]
               ELSE /\ report' = [report EXCEPT !.auth = auth_info.type,
                                                !.sub = r.value]
                    /\ pc' = "info_token"
                    /\ exc' = exc
       ELSE /\ report' = [report EXCEPT !.auth = auth_info.type]
            /\ pc' = "info_token"
            /\ UNCHANGED <<result, calls, exc>>
    /\ UNCHANGED <<args, environ, settings, searchPath, fsys, registry,
                   cli_type, spec_dir, outcome, exit_code>>

\* lines 350-373: the credential lookup of core.auth, then back in _run_cli
InfoToken ==
    /\ pc = "info_token"
    /\ \E token \in BOOLEAN : report' = [report EXCEPT !.token = token]
    /\ calls' = Append(calls, "get_auth_token_by_cli_type")
    /\ pc' = "returned"
    /\ UNCHANGED <<args, environ, settings, searchPath, fsys, registry,
                   cli_type, spec_dir, result, outcome, exc, exit_code>>

\* ------------------------------------------------------- main, lines 386-395

\* _run_cli returned: the interpreter ends with status 0
MainReturn ==
    /\ pc = "returned"
    /\ pc' = "exited"
    /\ exit_code' = 0
    /\ UNCHANGED <<args, environ, settings, searchPath, fsys, registry,
                   cli_type, spec_dir, result, report, outcome, calls, exc>>

\* lines 388-390: except KeyboardInterrupt
MainInterrupt ==
    /\ pc = "raised"
    /\ exc.type = "KeyboardInterrupt"
    /\ pc' = "exited"
    /\ exit_code' = 130
    /\ UNCHANGED <<args, environ, settings, searchPath, fsys, registry,
                   cli_type, spec_dir, result, report, outcome, calls, exc>>

\* lines 391-395: except Exception
MainException ==
    /\ pc = "raised"
    /\ exc.type = "Exception"
    /\ calls' = Append(calls, "capture_exception")
    /\ pc' = "exited"
    /\ exit_code' = 1
    /\ UNCHANGED <<args, environ, settings, searchPath, fsys, registry,
                   cli_type, spec_dir, result, report, outcome, exc>>

\* SystemExit handled as `except Exception` handles an error
MainSystemExit_Captured ==
    /\ pc = "raised"
    /\ exc.type = "SystemExit"
    /\ calls' = Append(calls, "capture_exception")
    /\ pc' = "exited"
    /\ exit_code' = 1
    /\ UNCHANGED <<args, environ, settings, searchPath, fsys, registry,
                   cli_type, spec_dir, result, report, outcome, exc>>

\* SystemExit is no Exception: sys.exit(n) passes both clauses
MainSystemExit ==
    /\ pc = "raised"
    /\ exc.type = "SystemExit"
    /\ pc' = "exited"
    /\ exit_code' = exc.code
    /\ UNCHANGED <<args, environ, settings, searchPath, fsys, registry,
                   cli_type, spec_dir, result, report, outcome, calls, exc>>

Next ==
    \/ SelectCli
    \/ InfoBranch
    \/ RequireSpec
    \/ FindSpec
    \/ HandleMergePreview
    \/ HandleMerge
    \/ HandleReview
    \/ HandleDiscard
    \/ HandleCreatePr
    \/ HandleQaStatus
    \/ HandleReviewStatus
    \/ HandleQa
    \/ HandleFollowup
    \/ HandleBuild
    \/ InfoManager
    \/ InfoPath
    \/ InfoValidate
    \/ InfoAuth
    \/ InfoToken
    \/ MainReturn
    \/ MainInterrupt
    \/ MainException
    \/ MainSystemExit

Spec == Init /\ [][Next]_vars

\* main() with a settings file that is absent or holds a JSON object whose
\* opencode field, when there is one, is an object too
InitUsable ==
    /\ Init
    /\ settings.file = "ok"
          => /\ settings.doc.t = "obj"
             /\ settings.doc.opencode.t \in {"missing", "obj"}

SpecUsable == InitUsable /\ [][Next]_vars

\* ============== print_cli_and_auth_info while its surroundings are changing

\* both binaries installed
InfoFsys ==
    (UsrBin \o <<"claude">>) :> "exec" @@ (UsrBin \o <<"opencode">>) :> "exec"

InfoProviderEnv == DispatchProviderEnv \cup {EnvVal(CLIType_CLAUDE)}

\* print_cli_and_auth_info is entered (main.py line 302), or print_cli_info
\* is entered with a manager of either type (cli_manager.py line 350)
InitInfo ==
    /\ \/ /\ pc = "info_manager"
          /\ cli_type = <<>>
          /\ calls = <<"print_cli_and_auth_info">>
       \/ /\ pc = "print_cli_info"
          /\ cli_type \in CLIType
          /\ calls = <<"print_cli_info">>
    /\ args = [NoArgs EXCEPT !.info = TRUE]
    /\ \E p \in InfoProviderEnv :
          environ = [NoEnviron EXCEPT ![CLI_PROVIDER_ENV] = p]
    /\ settings \in DispatchSettings
    /\ searchPath = <<UsrBin>>
    /\ fsys \in {DispatchFsys, InfoFsys}
    /\ registry = {SpecDir001}
    /\ spec_dir = NonePath
    /\ result = NoResult
    /\ report = NoReport
    /\ outcome = ""
    /\ exc = NoExc
    /\ exit_code = -1

\* print_cli_info (cli_manager.py lines 350-372)
PrintCliInfo ==
    /\ pc = "print_cli_info"
    /\ LET cli_path  == GetCliPath(cli_type, environ, searchPath, fsys).value
           auth_info == GetAuthInfo(cli_type)
           shown     == [report EXCEPT !.cli_type = cli_type,
                                       !.cli_path = cli_path,
                                       !.auth = auth_info.type] IN
       IF cli_type = CLIType_OPENCODE
       THEN LET r == GetOpencodeProvider(environ, settings) IN
            /\ result' = r
            /\ calls' = Append(calls, "get_opencode_provider")
            /\ IF r.kind = "raise"
               THEN /\ Raises("Exception", 0)
                    /\ report' = shown
               ELSE /\ report' = [shown EXCEPT !.sub = r.value]
                    /\ pc' = "printed"
                    /\ exc' = exc
       ELSE /\ report' = shown
            /\ pc' = "printed"
            /\ UNCHANGED <<result, calls, exc>>
    /\ UNCHANGED <<args, environ, settings, searchPath, fsys, registry,
                   cli_type, spec_dir, outcome, exit_code>>

\* the program points of print_cli_and_auth_info after the manager exists
InfoResolved == {"info_path", "info_validate", "info_auth", "info_token"}

\* another thread of the process rewrites CLI_PROVIDER after the resolution
ProviderEnvChanges ==
    /\ pc \in InfoResolved
    /\ \E p \in InfoProviderEnv :
          /\ p # environ[CLI_PROVIDER_ENV]
          /\ environ' = [environ EXCEPT ![CLI_PROVIDER_ENV] = p]
    /\ UNCHANGED <<pc, args, settings, searchPath, fsys, registry, cli_type,
                   spec_dir, result, report, outcome, calls, exc, exit_code>>

\* another process rewrites .auto-claude/settings.json after the resolution
SettingsChange ==
    /\ pc \in InfoResolved
    /\ \E st \in DispatchSettings :
          /\ st # settings
          /\ settings' = st
    /\ UNCHANGED <<pc, args, environ, searchPath, fsys, registry, cli_type,
                   spec_dir, result, report, outcome, calls, exc, exit_code>>

NextInfo ==
    \/ InfoManager
    \/ InfoPath
    \/ InfoValidate
    \/ InfoAuth
    \/ InfoToken
    \/ PrintCliInfo
    \/ ProviderEnvChanges
    \/ SettingsChange

SpecInfo == InitInfo /\ [][NextInfo]_vars

\* =============================================== _detect_cli, step by step

\* the unset-defaults of the variables a resolver run does not use
Idle ==
    /\ args = NoArgs
    /\ searchPath = <<>>
    /\ fsys = << >>
    /\ registry = {}
    /\ cli_type = <<>>
    /\ spec_dir = NonePath
    /\ result = NoResult
    /\ report = NoReport
    /\ outcome = ""
    /\ calls = <<>>
    /\ exc = NoExc
    /\ exit_code = -1

\* values of the settings' cli field
CliValues ==
    {JMissing, JNull, JTrue, JFalse, JZero, JOne, JEmptyList,
     JList(CLIType_OPENCODE)}
       \cup {JStr(x) : x \in ProviderStrings}

NonObjectKinds == {"list", "str", "num", "bool", "null"}

DetectSettingsCore ==
    {SettingsAbsent, SettingsIOError, SettingsBadJson, SettingsBadUtf8,
     SettingsDoc(DocNonObject("list")),
     SettingsDoc(DocObject(JMissing, OcMissing)),
     SettingsDoc(DocObject(JStr(CLIType_CLAUDE), OcMissing)),
     SettingsDoc(DocObject(JStr(CLIType_OPENCODE), OcMissing)),
     SettingsDoc(DocObject(JStr(<<" ">> \o upper(CLIType_OPENCODE)), OcMissing)),
     SettingsDoc(DocObject(JStr(Bogus), OcMissing))}

DetectSettingsAll ==
    DetectSettingsCore
       \cup {SettingsDoc(DocNonObject(k)) : k \in NonObjectKinds}
       \cup {SettingsDoc(DocObject(c, OcMissing)) : c \in CliValues}

\* CLIManager.__init__ about to call _detect_cli: every spelling of the
\* override against the core settings, every settings file against no override
InitDetect ==
    /\ pc = "detect_env"
    /\ \/ /\ \E x \in ProviderStrings :
               environ = [NoEnviron EXCEPT ![CLI_PROVIDER_ENV] = EnvVal(x)]
          /\ settings \in DetectSettingsCore
       \/ /\ environ \in {NoEnviron,
                          [NoEnviron EXCEPT ![CLI_PROVIDER_ENV] = EnvVal(<<>>)]}
          /\ settings \in DetectSettingsAll
    /\ Idle

\* lines 80-94
DetectEnv ==
    /\ pc = "detect_env"
    /\ result' = DetectCliEnvStep(environ)
    /\ pc' = IF result'.kind = "return" THEN "detect_done" ELSE "detect_settings"
    /\ UNCHANGED <<args, environ, settings, searchPath, fsys, registry,
                   cli_type, spec_dir, report, outcome, calls, exc, exit_code>>

\* lines 96-117
DetectSettings ==
    /\ pc = "detect_settings"
    /\ LET f == DetectCliSettingsStep(settings) IN
       /\ result' = IF f.kind = "raise" THEN f
                    ELSE [f EXCEPT !.warn = result.warn \/ f.warn]
       /\ pc' = CASE f.kind = "raise"  -> "detect_raised"
                  [] f.kind = "return" -> "detect_done"
                  [] OTHER             -> "detect_default"
    /\ UNCHANGED <<args, environ, settings, searchPath, fsys, registry,
                   cli_type, spec_dir, report, outcome, calls, exc, exit_code>>

\* lines 119-121
DetectDefault ==
    /\ pc = "detect_default"
    /\ result' = [DetectCliDefault EXCEPT !.warn = result.warn]
    /\ pc' = "detect_done"
    /\ UNCHANGED <<args, environ, settings, searchPath, fsys, registry,
                   cli_type, spec_dir, report, outcome, calls, exc, exit_code>>

NextDetect == DetectEnv \/ DetectSettings \/ DetectDefault

SpecDetect == InitDetect /\ [][NextDetect]_vars

\* ===================================== get_opencode_provider, step by step

\* values of the settings' opencode.provider field
ProviderValues ==
    {JMissing, JNull, JFalse, JOne, JList(CLIProvider_OPENAI)}
       \cup {JStr(x) : x \in SubProviderStrings}

SubSettingsCore ==
    {SettingsAbsent, SettingsBadJson,
     SettingsDoc(DocNonObject("list")),
     SettingsDoc(DocObject(JMissing, OcMissing)),
     SettingsDoc(DocObject(JMissing, OcNonObject("str"))),
     SettingsDoc(DocObject(JMissing, OcObject(JStr(CLIProvider_GOOGLE)))),
     SettingsDoc(DocObject(JMissing, OcObject(JStr(Bogus))))}

SubSettingsAll ==
    SubSettingsCore
       \cup {SettingsIOError, SettingsBadUtf8}
       \cup {SettingsDoc(DocNonObject(k)) : k \in NonObjectKinds}
       \cup {SettingsDoc(DocObject(JMissing, OcNonObject(k))) : k \in NonObjectKinds}
       \cup {SettingsDoc(DocObject(JMissing, OcObject(v))) : v \in ProviderValues}

\* get_opencode_provider about to run: every spelling of the override against
\* the core settings, every settings file against no override
InitSub ==
    /\ pc = "sub_env"
    /\ \/ /\ \E x \in SubProviderStrings :
               environ = [NoEnviron EXCEPT ![OPENCODE_PROVIDER_ENV] = EnvVal(x)]
          /\ settings \in SubSettingsCore
       \/ /\ environ \in {NoEnviron,
                          [NoEnviron EXCEPT ![OPENCODE_PROVIDER_ENV] = EnvVal(<<" ">>)]}
          /\ settings \in SubSettingsAll
    /\ Idle

\* lines 305-309: provider_str from the environment
SubEnv ==
    /\ pc = "sub_env"
    /\ LET provider_str ==
             lower(strip(EnvGet(environ, OPENCODE_PROVIDER_ENV, <<>>))) IN
       /\ result' = Continue(FALSE) @@ [provider_str |-> provider_str]
       /\ pc' = IF provider_str = <<>> THEN "sub_settings" ELSE "sub_validate"
    /\ UNCHANGED <<args, environ, settings, searchPath, fsys, registry,
                   cli_type, spec_dir, report, outcome, calls, exc, exit_code>>

\* lines 310-321: provider_str from the settings file
SubSettings ==
    /\ pc = "sub_settings"
    /\ LET f == SubProviderSettingsStep(settings) IN
       IF f.kind = "raise"
       THEN /\ result' = f
            /\ pc' = "sub_raised"
       ELSE /\ result' = Continue(FALSE) @@ [provider_str |-> f.value]
            /\ pc' = "sub_validate"
    /\ UNCHANGED <<args, environ, settings, searchPath, fsys, registry,
                   cli_type, spec_dir, report, outcome, calls, exc, exit_code>>

\* lines 323-334: the default and the enumeration lookup
SubValidate ==
    /\ pc = "sub_validate"
    /\ result' = SubProviderValidate(result.provider_str)
    /\ pc' = "sub_done"
    /\ UNCHANGED <<args, environ, settings, searchPath, fsys, registry,
                   cli_type, spec_dir, report, outcome, calls, exc, exit_code>>

NextSub == SubEnv \/ SubSettings \/ SubValidate

SpecSub == InitSub /\ [][NextSub]_vars

\* ===================================================== get_cli_path, as called

\* the number of directories on PATH
MaxSearchDirs == 2

DirNames == <<"usr", "opt", "home", "srv">>
Dirs == {<<DirNames[i], "bin">> : i \in 1..MaxSearchDirs}

\* where a path override can point besides PATH
ToolsPath == <<"opt", "tools", "agent">>

\* CLIType.value as the binary name shutil.which is given
BinaryName(ct) == IF ct = CLIType_CLAUDE THEN "claude" ELSE "opencode"
OtherName(ct)  == IF ct = CLIType_CLAUDE THEN "opencode" ELSE "claude"

\* the variable that overrides the path of ct
PathEnvOf(ct) ==
    IF ct = CLIType_CLAUDE THEN CLAUDE_CLI_PATH_ENV ELSE OPENCODE_CLI_PATH_ENV
OtherPathEnv(ct) ==
    IF ct = CLIType_CLAUDE THEN OPENCODE_CLI_PATH_ENV ELSE CLAUDE_CLI_PATH_ENV

\* PATH: the directories in some order, each at most once
SearchPaths ==
    {q \in UNION {[1..n -> Dirs] : n \in 0..MaxSearchDirs} :
        \A i, j \in DOMAIN q : i # j => q[i] # q[j]}

\* the files: ct's binary is anything in each directory, the other provider's
\* binary is installed everywhere or nowhere, the tools path may hold a file
Filesystems(ct) ==
    {a @@ b @@ c :
        a \in [{d \o <<BinaryName(ct)>> : d \in Dirs} -> FileKinds],
        b \in {[p \in {d \o <<OtherName(ct)>> : d \in Dirs} |-> k] :
                  k \in {"absent", "exec"}},
        c \in [{ToolsPath} -> {"absent", "file"}]}

\* a CLIManager of either type about to run get_cli_path
InitLocate ==
    /\ pc = "locate"
    /\ cli_type \in CLIType
    /\ \E own \in {EnvUnset, EnvVal(<<>>), EnvVal(ToolsPath),
                   EnvVal(<<DirNames[1], "bin", BinaryName(cli_type)>>)},
          other \in {EnvUnset, EnvVal(ToolsPath)} :
          environ = [NoEnviron EXCEPT ![PathEnvOf(cli_type)] = own,
                                      ![OtherPathEnv(cli_type)] = other]
    /\ searchPath \in SearchPaths
    /\ fsys \in Filesystems(cli_type)
    /\ settings = SettingsAbsent
    /\ args = NoArgs
    /\ registry = {}
    /\ spec_dir = NonePath
    /\ result = NoResult
    /\ report = NoReport
    /\ outcome = ""
    /\ calls = <<>>
    /\ exc = NoExc
    /\ exit_code = -1

\* lines 142-143
LocateClaude ==
    /\ pc = "locate"
    /\ cli_type = CLIType_CLAUDE
    /\ result' = FindClaudeCli(environ, searchPath, fsys)
    /\ pc' = "locate_done"
    /\ UNCHANGED <<args, environ, settings, searchPath, fsys, registry,
                   cli_type, spec_dir, report, outcome, calls, exc, exit_code>>

\* lines 144-145
LocateOpencode ==
    /\ pc = "locate"
    /\ cli_type # CLIType_CLAUDE
    /\ result' = FindOpencodeCli(environ, searchPath, fsys)
    /\ pc' = "locate_done"
    /\ UNCHANGED <<args, environ, settings, searchPath, fsys, registry,
                   cli_type, spec_dir, report, outcome, calls, exc, exit_code>>

NextLocate == LocateClaude \/ LocateOpencode

SpecLocate == InitLocate /\ [][NextLocate]_vars

\* ===================================================== validate_cli, as called

\* a CLIManager of either type about to run validate_cli
InitValidate ==
    /\ pc = "validate"
    /\ cli_type \in CLIType
    /\ \E own \in {EnvUnset, EnvVal(<<>>), EnvVal(ToolsPath),
                   EnvVal(<<DirNames[1], "bin", BinaryName(cli_type)>>)},
          other \in {EnvUnset, EnvVal(ToolsPath)} :
          environ = [NoEnviron EXCEPT ![PathEnvOf(cli_type)] = own,
                                      ![OtherPathEnv(cli_type)] = other]
    /\ searchPath \in SearchPaths
    /\ fsys \in Filesystems(cli_type)
    /\ settings = SettingsAbsent
    /\ args = NoArgs
    /\ registry = {}
    /\ spec_dir = NonePath
    /\ result = NoResult
    /\ report = NoReport
    /\ outcome = ""
    /\ calls = <<>>
    /\ exc = NoExc
    /\ exit_code = -1

\* lines 223-224
ValidateLocate ==
    /\ pc = "validate"
    /\ LET r == GetCliPath(cli_type, environ, searchPath, fsys) IN
       /\ result' = r
       /\ report' = [report EXCEPT !.cli_path = r.value]
    /\ pc' = "validate_check"
    /\ UNCHANGED <<args, environ, settings, searchPath, fsys, registry,
                   cli_type, spec_dir, outcome, calls, exc, exit_code>>

\* another process removes the located file before validate_cli looks at it
FileVanishes ==
    /\ pc = "validate_check"
    /\ report.cli_path # NonePath
    /\ Exists(fsys, report.cli_path)
    /\ fsys' = [fsys EXCEPT ![report.cli_path] = "absent"]
    /\ UNCHANGED <<pc, args, environ, settings, searchPath, registry, cli_type,
                   spec_dir, result, report, outcome, calls, exc, exit_code>>

\* lines 226-261; outcome keeps how the probe ended when one was started
ValidateProbe ==
    /\ pc = "validate_check"
    /\ LET started == report.cli_path # NonePath /\ Exists(fsys, report.cli_path)
           probes  == IF started THEN ProbesOf(fsys, report.cli_path)
                      ELSE {"not started"} IN
       \E probe \in probes :
          LET v == ValidatePath(title(cli_type), report.cli_path, fsys, probe) IN
          /\ report' = [report EXCEPT !.valid = v]
          /\ outcome' = probe
          /\ pc' = IF v.raised # "" THEN "validate_raised" ELSE "validate_done"
    /\ UNCHANGED <<args, environ, settings, searchPath, fsys, registry,
                   cli_type, spec_dir, result, calls, exc, exit_code>>

NextValidate == ValidateLocate \/ FileVanishes \/ ValidateProbe

SpecValidate == InitValidate /\ [][NextValidate]_vars

\* ============================================================ dispatch claims

HandlerNames ==
    {"handle_merge_preview_command", "handle_merge_command",
     "handle_review_command", "handle_discard_command",
     "handle_create_pr_command", "handle_qa_status_command",
     "handle_review_status_command", "handle_qa_command",
     "handle_followup_command", "handle_build_command"}

IsHandler(c) == c \in HandlerNames

\* the handlers called so far, in order
Invoked == SelectSeq(calls, IsHandler)

Called(name) == \E i \in DOMAIN calls : calls[i] = name

\* the priority order the specification fixes, with each flag's handler
Priority ==
    << <<"merge_preview", "handle_merge_preview_command">>,
       <<"merge", "handle_merge_command">>,
       <<"review", "handle_review_command">>,
       <<"discard", "handle_discard_command">>,
       <<"create_pr", "handle_create_pr_command">>,
       <<"qa_status", "handle_qa_status_command">>,
       <<"review_status", "handle_review_status_command">>,
       <<"qa", "handle_qa_command">>,
       <<"followup", "handle_followup_command">> >>

Expected(a) ==
    LET set == {i \in DOMAIN Priority : a[Priority[i][1]]} IN
    IF set = {} THEN "handle_build_command"
    ELSE Priority[CHOOSE i \in set : \A j \in set : i <= j][2]

\* C1: once the spec is resolved, exactly one handler is invoked, and it is
\* the handler of the highest-priority flag that is set (the build handler
\* when none is); no handler is invoked before that, and never a second one.
C1_OneHandlerByPriority ==
    /\ Len(Invoked) <= 1
    /\ pc = "dispatch" => Invoked = <<>>
    /\ (spec_dir # NonePath /\ pc \in {"returned", "raised", "exited"})
          => Invoked = <<Expected(args)>>

\* merge and review both requested: only merge ran
C1_Witness ==
    /\ pc = "exited"
    /\ args.merge /\ args.review /\ ~args.merge_preview
    /\ spec_dir = SpecDir001
    /\ Invoked = <<"handle_merge_command">>

\* C2: without a spec identifier, a listing flag and an info flag the process
\* exits with code 1, no handler is invoked and no spec is looked up.
C2_SpecRequired ==
    (args.spec = <<>> /\ ~args.list /\ ~args.info)
       => /\ Invoked = <<>>
          /\ ~Called("find_spec")
          /\ pc = "exited" => exit_code = 1

\* no spec, terminal flags set all the same: usage and exit 1
C2_Witness ==
    /\ pc = "exited"
    /\ args.spec = <<>> /\ ~args.list /\ ~args.info
    /\ args.merge /\ args.qa
    /\ Called("print_usage")
    /\ exit_code = 1

\* the spec identifier given is one the registry does not resolve
Unresolvable == args.spec # <<>> /\ find_spec(registry, args.spec) = NonePath

\* C3 as stated: an identifier the registry does not resolve ends in exit
\* code 1 after the list of specs is printed, and no handler runs.
C3_Original ==
    (Unresolvable /\ pc = "exited")
       => /\ exit_code = 1
          /\ Called("print_specs_list")
          /\ Invoked = <<>>

\* C3, amended: the same when the info flag is absent (with --info the
\* identifier is never looked up).
C3_SpecNotFound ==
    (Unresolvable /\ ~args.info)
       => /\ Invoked = <<>>
          /\ pc = "exited" => (exit_code = 1 /\ Called("print_specs_list"))

C3_Witness ==
    /\ pc = "exited"
    /\ Unresolvable /\ ~args.info
    /\ args.merge_preview /\ args.followup
    /\ calls = <<"find_spec", "print_banner", "print_specs_list">>
    /\ exit_code = 1

\* C4: --list without --spec (and without --info) does not end in the
\* "--spec is required" error.
C4_ListNeedsNoSpec ==
    (args.list /\ args.spec = <<>> /\ ~args.info)
       => ~(pc = "exited" /\ exit_code = 1 /\ Called("print_usage"))

\* C5: with --info the run ends with exit code 0, and neither the spec lookup
\* nor any handler runs, whatever else is given.
C5_InfoDisplayed ==
    args.info
       => /\ Invoked = <<>>
          /\ ~Called("find_spec")
          /\ pc = "exited" => exit_code = 0

\* ===================================================== _detect_cli claims

\* s is lit in some letter case, with whitespace (only) around it
Matches(s, lit) ==
    \E i \in 0..Len(s) :
       /\ i + Len(lit) <= Len(s)
       /\ \A k \in 1..i : s[k] \in Whitespace
       /\ \A k \in (i + Len(lit) + 1)..Len(s) : s[k] \in Whitespace
       /\ \A k \in 1..Len(lit) : s[i + k] \in {lit[k], UpperChar(lit[k])}

\* the CLI_PROVIDER override normalizes to the literal lit
OverrideIs(lit) ==
    environ[CLI_PROVIDER_ENV].set /\ Matches(environ[CLI_PROVIDER_ENV].v, lit)

DetectEnded == pc \in {"detect_done", "detect_raised"}

\* two outcomes agree on what the caller sees
SameOutcome(a, b) == a.kind = b.kind /\ a.value = b.value /\ a.exc = b.exc

\* C6: an override that normalizes to a known literal is returned whatever
\* the settings file holds; any other override is ignored: the settings-file
\* step runs and the outcome is the one the same settings give with no
\* override set.
C6_OverrideOrSettings ==
    /\ \A lit \in CLIType :
          (OverrideIs(lit) /\ pc # "detect_env")
             => pc = "detect_done" /\ result = Return(lit, FALSE)
    /\ (DetectEnded /\ ~\E lit \in CLIType : OverrideIs(lit))
          => SameOutcome(result, DetectCli(NoEnviron, settings))

\* an unrecognized override, and the settings file decided
C6_Witness ==
    /\ pc = "detect_done"
    /\ environ[CLI_PROVIDER_ENV] = EnvVal(<<" ">> \o upper(Bogus))
    /\ settings = SettingsDoc(DocObject(JStr(CLIType_OPENCODE), OcMissing))
    /\ result.value = CLIType_OPENCODE
    /\ result.warn

\* the settings file holds a JSON object whose cli field is v
CliFieldIs(v) ==
    settings.file = "ok" /\ settings.doc.t = "obj" /\ settings.doc.cli = v

\* the cli field is a string that normalizes to the literal lit
CliFieldNames(lit) ==
    /\ settings.file = "ok" /\ settings.doc.t = "obj"
    /\ settings.doc.cli.t = "str"
    /\ Matches(settings.doc.cli.s, lit)

\* C7: with no override, a cli field that normalizes to a known literal
\* selects that provider; no settings file, no cli field or an unrecognized
\* cli value gives the default, claude.
C7_SettingsThenDefault ==
    (DetectEnded /\ ~environ[CLI_PROVIDER_ENV].set)
       => /\ \A lit \in CLIType :
                CliFieldNames(lit) => result = Return(lit, FALSE)
          /\ ( \/ settings.file = "absent"
               \/ /\ settings.file = "ok" /\ settings.doc.t = "obj"
                  /\ ~\E lit \in CLIType : CliFieldNames(lit) )
                => /\ result.kind = "return"
                   /\ result.value = CLIType_CLAUDE

\* cli = "OPENCODE", padded, and nothing in the environment
C7_Witness ==
    /\ pc = "detect_done"
    /\ ~environ[CLI_PROVIDER_ENV].set
    /\ CliFieldIs(JStr(<<"\t">> \o upper(CLIType_OPENCODE) \o <<" ">>))
    /\ result = Return(CLIType_OPENCODE, FALSE)

\* the settings file exists and gives no usable document
Unusable(st) ==
    \/ st.file \in {"ioerror", "badjson", "badutf8"}
    \/ st.file = "ok" /\ st.doc.t # "obj"

\* C8: _detect_cli never raises, and a settings file that cannot be read or
\* parsed into an object counts as absent.
C8_Total ==
    /\ pc # "detect_raised"
    /\ (DetectEnded /\ Unusable(settings))
          => SameOutcome(result, DetectCli(environ, SettingsAbsent))

\* ============================================ get_opencode_provider claims

\* the OPENCODE_PROVIDER override, trimmed, is empty (or there is none)
NoSubOverride ==
    \/ ~environ[OPENCODE_PROVIDER_ENV].set
    \/ \A k \in DOMAIN environ[OPENCODE_PROVIDER_ENV].v :
          environ[OPENCODE_PROVIDER_ENV].v[k] \in Whitespace

\* the settings' opencode.provider field is a string naming lit
ProviderFieldNames(lit) ==
    /\ settings.file = "ok" /\ settings.doc.t = "obj"
    /\ settings.doc.opencode.t = "obj"
    /\ settings.doc.opencode.provider.t = "str"
    /\ Matches(settings.doc.opencode.provider.s, lit)

\* C9: get_opencode_provider never fails, whatever the environment and the
\* settings file hold; the override wins, then opencode.provider, then the
\* first member; an unrecognized value warns and gives the first member.
C9_SubProviderTotal ==
    /\ pc # "sub_raised"
    /\ pc = "sub_done"
          => /\ result.kind = "return"
             /\ result.value \in CLIProvider
             /\ \A lit \in CLIProvider :
                   Matches(environ[OPENCODE_PROVIDER_ENV].v, lit)
                      => result = Return(lit, FALSE)
             /\ (~NoSubOverride /\ ~\E lit \in CLIProvider :
                                      Matches(environ[OPENCODE_PROVIDER_ENV].v, lit))
                   => result = Return(CLIProviderMembers[1], TRUE)
             /\ \A lit \in CLIProvider :
                   (NoSubOverride /\ ProviderFieldNames(lit))
                      => result = Return(lit, FALSE)

\* ======================================================= get_cli_path claims

\* the override of the active provider's path, and whether it names a path
\* that exists
OwnOverride == environ[PathEnvOf(cli_type)]
OverrideExists ==
    /\ OwnOverride.set
    /\ OwnOverride.v # <<>>
    /\ OwnOverride.v \in DOMAIN fsys
    /\ fsys[OwnOverride.v] # "absent"

\* directory i of PATH holds an executable called name
HasExec(i, name) ==
    /\ (searchPath[i] \o <<name>>) \in DOMAIN fsys
    /\ fsys[searchPath[i] \o <<name>>] = "exec"

\* p is the first match of name on PATH
IsFirstMatch(p, name) ==
    \E i \in DOMAIN searchPath :
       /\ p = searchPath[i] \o <<name>>
       /\ HasExec(i, name)
       /\ \A j \in 1..(i - 1) : ~HasExec(j, name)

\* C10: an override path that exists is returned as it is; one that does
\* not exist is never returned: the result is then the first match of the
\* active provider's binary name on PATH, or nothing when there is none.
C10_LocateExecutable ==
    pc = "locate_done"
       => /\ result.kind = "return"
          /\ OverrideExists => result.value = OwnOverride.v
          /\ ~OverrideExists
                => IF \E i \in DOMAIN searchPath : HasExec(i, BinaryName(cli_type))
                   THEN IsFirstMatch(result.value, BinaryName(cli_type))
                   ELSE result.value = NonePath
          /\ result.value # NonePath
                => result.value \in DOMAIN fsys /\ fsys[result.value] # "absent"

\* the override names a missing file, the first directory holds the binary
\* without the execute bit, the second holds it: the second is the result
C10_Witness ==
    /\ pc = "locate_done"
    /\ cli_type = CLIType_OPENCODE
    /\ OwnOverride = EnvVal(ToolsPath)
    /\ fsys[ToolsPath] = "absent"
    /\ Len(searchPath) = 2
    /\ fsys[searchPath[1] \o <<"opencode">>] = "file"
    /\ fsys[searchPath[1] \o <<"claude">>] = "exec"
    /\ result.value = searchPath[2] \o <<"opencode">>

\* ------------------------------------------------------------------ C11

ValidateEnded == pc \in {"validate_done", "validate_raised"}

\* C11: validate_cli never raises: whether no executable was located, the
\* located path is missing on disk, or the version probe exited 0, exited
\* non-zero, timed out, found the executable gone, was denied permission or
\* failed in any other way, it returns a result; the result is ok exactly when
\* an executable was located, exists and the probe exited with code 0; after a
\* timeout it is not ok and carries the timeout message.
C11_ValidateNeverRaises ==
    ValidateEnded =>
        /\ pc = "validate_done"
        /\ report.valid.raised = ""
        /\ report.valid.ok <=> /\ report.cli_path # NonePath
                               /\ Exists(fsys, report.cli_path)
                               /\ outcome = "exit0"
        /\ outcome = "timeout" =>
              /\ ~report.valid.ok
              /\ report.valid.msg = "timed out when checking version"

\* the probe of a located, existing executable timed out and validate_cli
\* returned
C11_Witness ==
    /\ pc = "validate_done"
    /\ report.cli_path # NonePath
    /\ Exists(fsys, report.cli_path)
    /\ outcome = "timeout"
    /\ ~report.valid.ok

\* ------------------------------------------------------------------ C12

\* how many times name was called
CallCount(name) == Cardinality({i \in DOMAIN calls : calls[i] = name})

\* a located path is the binary of provider type ct
BinaryOf(p, ct) == p # NonePath /\ p[Len(p)] = BinaryName(ct)

\* the program points after which a part of the report has been produced
AfterPath     == {"info_validate", "info_auth", "info_token", "returned"}
AfterValidate == {"info_auth", "info_token", "returned"}
AfterAuth     == {"info_token", "returned"}

\* C12: within one run of the information display the provider is resolved
\* once, and the type reported, the executable located, the executable
\* validated and the authentication descriptor all belong to that one type,
\* also when CLI_PROVIDER or the settings file changes after the resolution.
C12_OneProviderPerInvocation ==
    pc \in InfoResolved \cup {"returned"} =>
        /\ CallCount("get_cli_manager") = 1
        /\ cli_type \in CLIType
        /\ report.cli_type = cli_type
        /\ pc \in AfterPath =>
              report.cli_path = NonePath \/ BinaryOf(report.cli_path, cli_type)
        /\ pc \in AfterValidate =>
              /\ report.valid.name = title(cli_type)
              /\ report.valid.ok => BinaryOf(report.cli_path, cli_type)
        /\ pc \in AfterAuth =>
              report.auth = IF cli_type = CLIType_CLAUDE
                            THEN "oauth" ELSE "multi_provider"

\* the display finished for opencode, its binary located and validated, while
\* CLI_PROVIDER meanwhile names claude, so that resolving again would differ
C12_Witness ==
    /\ pc = "returned"
    /\ cli_type = CLIType_OPENCODE
    /\ environ[CLI_PROVIDER_ENV] = EnvVal(CLIType_CLAUDE)
    /\ DetectCli(environ, settings).value = CLIType_CLAUDE
    /\ BinaryOf(report.cli_path, CLIType_OPENCODE)
    /\ report.valid.ok
    /\ report.auth = "multi_provider"

\* ------------------------------------------------------------------ C13

\* C13: when --cli is given, CLI_PROVIDER holds that value before anything is
\* called and from then on for the rest of the run, so that a resolution made
\* at any later point returns the --cli choice, whatever CLI_PROVIDER held
\* before and whatever the settings file holds; in particular the resolution
\* the information display makes.
C13_SelectorWins ==
    args.cli # <<>> =>
        /\ calls # <<>> \/ pc # "start" =>
              /\ environ[CLI_PROVIDER_ENV] = EnvVal(args.cli)
              /\ \A st \in DispatchSettings \cup {SettingsIOError, SettingsBadJson,
                                                  SettingsBadUtf8} :
                    DetectCli(environ, st) = Return(args.cli, FALSE)
        /\ Called("get_cli_manager") =>
              /\ cli_type = args.cli
              /\ report.cli_type = args.cli

\* --cli claude against a settings file that selects opencode: the display
\* ran to the end for claude
C13_Witness ==
    /\ args.cli = CLIType_CLAUDE
    /\ settings = SettingsDoc(DocObject(JStr(CLIType_OPENCODE),
                                        OcObject(JStr(CLIProvider_ZEN))))
    /\ Called("get_cli_manager")
    /\ cli_type = CLIType_CLAUDE
    /\ pc = "exited"
    /\ exit_code = 0

\* ------------------------------------------------------------------ C14

Captured == Called("capture_exception")

C15_FailureExitsOne ==
    pc = "exited" =>
        /\ outcome = "fail" => exit_code = 1
        /\ exit_code = 0 =>
              \/ outcome = "ok"
              \/ args.info /\ Invoked = <<>>

\* ------------------------------------------------------------------ C16

\* the display has passed the point where the sub-provider would be read
PastSubProvider == pc \in {"info_token", "returned", "printed", "raised"}

\* C16: in every run of either information display get_opencode_provider is
\* called only for a manager whose type is opencode, never for claude, and
\* once the display has passed that point it has been called exactly once for
\* opencode; a sub-provider is reported only for opencode.
C16_SubProviderOnlyForOpencode ==
    /\ Called("get_opencode_provider") => cli_type = CLIType_OPENCODE
    /\ report.sub # <<>> => cli_type = CLIType_OPENCODE
    /\ PastSubProvider /\ cli_type = CLIType_OPENCODE =>
          CallCount("get_opencode_provider") = 1
    /\ PastSubProvider /\ cli_type = CLIType_CLAUDE =>
          /\ ~Called("get_opencode_provider")
          /\ pc # "raised"

\* print_cli_and_auth_info ran to the end for opencode and reported the
\* sub-provider the settings file names
C16_Witness ==
    /\ pc = "returned"
    /\ cli_type = CLIType_OPENCODE
    /\ Called("print_cli_and_auth_info")
    /\ Called("get_opencode_provider")
    /\ report.sub = CLIProvider_ZEN

====
